---- MODULE Spec2Model ----
(***************************************************************************)
(* mp4parse_fallible: fallible push / reserve / extend for Vec<T>, built   *)
(* on raw malloc / realloc, and the bounded read helper try_read_to_end.   *)
(*                                                                         *)
(* The model keeps the Vec header (ptr, len, cap) apart from the heap, so  *)
(* that what a reallocation preserves, leaks or frees is visible.  usize   *)
(* is scaled down to 0..UsizeMax; all checked arithmetic is checked        *)
(* against that maximum.                                                   *)
(***************************************************************************)
EXTENDS Integers, Sequences, FiniteSets

\* ---------------------------------------------------------------- bounds
\* usize::MAX of the modelled platform.
UsizeMax == 11
\* Largest request, in bytes, that the C allocator can ever satisfy.
HeapLimit == 8
\* Longest slice handed to try_extend_from_slice.
MaxSlice == 2
\* Longest underlying stream handed to try_read_to_end.
MaxStream == 2

\* mem::size_of::<T>() of the element types exercised (u8, u16, char).  A
\* zero-sized T is left out: its Vec reports capacity usize::MAX and never
\* reaches the allocator.
ElemSizes == {1, 2, 4}
\* Element values; Uninit marks a cell of a block nobody has written.
Vals == {1, 2}
Uninit == 0
\* Addresses the allocator may hand out.
Blocks == {1, 2}
NULL == 0
\* The well-aligned non-null pointer of a Vec that owns no allocation.
Dangling == -1
\* The None of checked_mul / checked_add / checked_sub.
None == -1
\* u64 values of Take::limit(): one of them does not fit in usize.
Limits == 0..(UsizeMax + 1)

VARIABLES
    elemSize,   \* mem::size_of::<T>() of the Vec's element type
    vec,        \* the Vec header: [ptr, len, cap]
    heap,       \* the C heap: block address -> [bytes, data]
    heapFault,  \* realloc was handed a pointer that is not a live block
    call,       \* the last call: operation, arguments, result, path taken
    old         \* the Vec as it was when the last call was made

vars == <<elemSize, vec, heap, heapFault, call, old>>

\* ------------------------------------------------------------ arithmetic
checked_mul(a, b) == IF a * b > UsizeMax THEN None ELSE a * b
checked_add(a, b) == IF a + b > UsizeMax THEN None ELSE a + b
checked_sub(a, b) == IF a < b THEN None ELSE a - b
Min(a, b) == IF a < b THEN a ELSE b

SeqsUpTo(S, n) == UNION {[1..k -> S] : k \in 0..n}

\* ------------------------------------------------------------- the heap
FreeBlock == [bytes |-> 0, data |-> <<>>]
Live(h, p) == p \in Blocks /\ h[p].bytes > 0
LiveBlocks(h) == {p \in Blocks : Live(h, p)}

\* A block of `bytes` bytes seen as cells of T, the first cells copied from
\* `data` (none for a fresh block).
Block(bytes, data) ==
    [bytes |-> bytes,
     data  |-> [i \in 1..(bytes \div elemSize) |->
                   IF i <= Len(data) THEN data[i] ELSE Uninit]]

\* malloc(bytes): null, or a fresh block at any free address.
malloc(h, bytes) ==
    {[ptr |-> NULL, heap |-> h, fault |-> FALSE]}
    \cup {[ptr |-> b, heap |-> [h EXCEPT ![b] = Block(bytes, <<>>)], fault |-> FALSE]
            : b \in {x \in Blocks : bytes <= HeapLimit /\ ~Live(h, x)}}

\* realloc(ptr, bytes): null with the old block untouched, or the block
\* resized in place, or its contents moved to a fresh block and the old
\* block freed.  A pointer that is no live block is undefined behaviour.
realloc(h, ptr, bytes) ==
    IF ~Live(h, ptr)
    THEN {[ptr |-> p, heap |-> h, fault |-> TRUE] : p \in {NULL} \cup Blocks}
    ELSE {[ptr |-> NULL, heap |-> h, fault |-> FALSE]}
         \cup {[ptr |-> ptr,
                heap |-> [h EXCEPT ![ptr] = Block(bytes, h[ptr].data)],
                fault |-> FALSE] : x \in {y \in {ptr} : bytes <= HeapLimit}}
         \cup {[ptr |-> b,
                heap |-> [h EXCEPT ![b] = Block(bytes, h[ptr].data),
                                   ![ptr] = FreeBlock],
                fault |-> FALSE]
                 : b \in {x \in Blocks : bytes <= HeapLimit /\ ~Live(h, x)}}

\* -------------------------------------------------------------- the Vec
\* Vec::new()
VecNew == [ptr |-> Dangling, len |-> 0, cap |-> 0]
\* Vec::from_raw_parts(ptr, len, cap)
from_raw_parts(ptr, len, cap) == [ptr |-> ptr, len |-> len, cap |-> cap]

\* The elements of the Vec: the first len cells behind its pointer.
Elems(v, h) ==
    [i \in 1..v.len |->
        IF v.ptr \in Blocks /\ i <= Len(h[v.ptr].data)
        THEN h[v.ptr].data[i] ELSE Uninit]

\* The outcome of a call or of a step of one.
Outcome(v, h, ret, cause, allocs, bytes, fault) ==
    [vec |-> v, heap |-> h, ret |-> ret, cause |-> cause,
     allocs |-> allocs, bytes |-> bytes, fault |-> fault]

\* Vec::extend_from_slice(other) after outcome e.  With spare capacity it
\* writes the elements in place; without, the standard library's own growth
\* runs, which aborts the process when memory is short.
extend_from_slice(e, other) ==
    LET v == e.vec
        h == e.heap
    IN  IF Len(other) = 0 THEN e
        ELSE IF v.cap - v.len < Len(other) \/ ~Live(h, v.ptr)
        THEN [e EXCEPT !.ret = "abort", !.cause = "std"]
        ELSE [e EXCEPT
                !.vec = [v EXCEPT !.len = v.len + Len(other)],
                !.heap = [h EXCEPT ![v.ptr].data =
                    [i \in 1..Len(h[v.ptr].data) |->
                        IF i > v.len /\ i <= v.len + Len(other)
                        THEN other[i - v.len] ELSE h[v.ptr].data[i]]]]

\* Vec::push(val) after outcome e.
push(e, val) == extend_from_slice(e, <<val>>)

\* ------------------------------------------------------- try_extend_vec
\* Mutant: the Vec header is replaced before the null check.
try_extend_vec_replace_first(v, h, new_cap) ==
    LET new_size_bytes == checked_mul(new_cap, elemSize)
    IN  IF v.cap >= new_cap THEN {Outcome(v, h, "Ok", "", 0, 0, FALSE)}
        ELSE IF new_size_bytes = None
        THEN {Outcome(v, h, "Err", "L105", 0, 0, FALSE)}
        ELSE {Outcome(from_raw_parts(a.ptr, v.len, new_cap), a.heap,
                      IF a.ptr = NULL THEN "Err" ELSE "Ok",
                      IF a.ptr = NULL THEN "L116" ELSE "",
                      1, new_size_bytes, a.fault)
                : a \in IF v.cap = 0 THEN malloc(h, new_size_bytes)
                        ELSE realloc(h, v.ptr, new_size_bytes)}

\* Mutant: every growth takes a fresh block from malloc.
try_extend_vec_malloc_only(v, h, new_cap) ==
    LET new_size_bytes == checked_mul(new_cap, elemSize)
    IN  IF v.cap >= new_cap THEN {Outcome(v, h, "Ok", "", 0, 0, FALSE)}
        ELSE IF new_size_bytes = None
        THEN {Outcome(v, h, "Err", "L105", 0, 0, FALSE)}
        ELSE {IF a.ptr = NULL
              THEN Outcome(v, a.heap, "Err", "L116", 1, new_size_bytes, a.fault)
              ELSE Outcome(from_raw_parts(a.ptr, v.len, new_cap), a.heap,
                           "Ok", "", 1, new_size_bytes, a.fault)
                : a \in malloc(h, new_size_bytes)}

\* Mutant: the new header is built with length 0.
try_extend_vec_zero_len(v, h, new_cap) ==
    LET new_size_bytes == checked_mul(new_cap, elemSize)
    IN  IF v.cap >= new_cap THEN {Outcome(v, h, "Ok", "", 0, 0, FALSE)}
        ELSE IF new_size_bytes = None
        THEN {Outcome(v, h, "Err", "L105", 0, 0, FALSE)}
        ELSE {IF a.ptr = NULL
              THEN Outcome(v, a.heap, "Err", "L116", 1, new_size_bytes, a.fault)
              ELSE Outcome(from_raw_parts(a.ptr, 0, new_cap), a.heap,
                           "Ok", "", 1, new_size_bytes, a.fault)
                : a \in IF v.cap = 0 THEN malloc(h, new_size_bytes)
                        ELSE realloc(h, v.ptr, new_size_bytes)}

\* Mutant: the allocator's result is used without the null check.
try_extend_vec_no_null_check(v, h, new_cap) ==
    LET new_size_bytes == checked_mul(new_cap, elemSize)
    IN  IF v.cap >= new_cap THEN {Outcome(v, h, "Ok", "", 0, 0, FALSE)}
        ELSE IF new_size_bytes = None
        THEN {Outcome(v, h, "Err", "L105", 0, 0, FALSE)}
        ELSE {Outcome(from_raw_parts(a.ptr, v.len, new_cap), a.heap,
                      "Ok", "", 1, new_size_bytes, a.fault)
                : a \in IF v.cap = 0 THEN malloc(h, new_size_bytes)
                        ELSE realloc(h, v.ptr, new_size_bytes)}

\* Mutant: the replaced header is dropped instead of forgotten, which
\* frees the block behind the old pointer.
try_extend_vec_drop_old(v, h, new_cap) ==
    LET new_size_bytes == checked_mul(new_cap, elemSize)
    IN  IF v.cap >= new_cap THEN {Outcome(v, h, "Ok", "", 0, 0, FALSE)}
        ELSE IF new_size_bytes = None
        THEN {Outcome(v, h, "Err", "L105", 0, 0, FALSE)}
        ELSE {IF a.ptr = NULL
              THEN Outcome(v, a.heap, "Err", "L116", 1, new_size_bytes, a.fault)
              ELSE Outcome(from_raw_parts(a.ptr, v.len, new_cap),
                           IF v.cap > 0 /\ Live(a.heap, v.ptr)
                           THEN [a.heap EXCEPT ![v.ptr] = FreeBlock]
                           ELSE a.heap,
                           "Ok", "", 1, new_size_bytes,
                           a.fault \/ (v.cap > 0 /\ ~Live(a.heap, v.ptr)))
                : a \in IF v.cap = 0 THEN malloc(h, new_size_bytes)
                        ELSE realloc(h, v.ptr, new_size_bytes)}

\* try_extend_vec(vec, new_cap): the outcomes of growing v to new_cap
\* elements, one per answer the allocator may give.  On success the header
\* becomes from_raw_parts(new_ptr, old_len, new_cap) and the replaced header
\* is forgotten, so nothing is freed.
try_extend_vec(v, h, new_cap) ==
    LET old_ptr == v.ptr
        old_len == v.len
        old_cap == v.cap
        new_size_bytes == checked_mul(new_cap, elemSize)
    IN  IF old_cap >= new_cap THEN {Outcome(v, h, "Ok", "", 0, 0, FALSE)}
        ELSE IF new_size_bytes = None
        THEN {Outcome(v, h, "Err", "L105", 0, 0, FALSE)}
        ELSE {IF a.ptr = NULL
              THEN Outcome(v, a.heap, "Err", "L116", 1, new_size_bytes, a.fault)
              ELSE Outcome(from_raw_parts(a.ptr, old_len, new_cap), a.heap,
                           "Ok", "", 1, new_size_bytes, a.fault)
                : a \in IF old_cap = 0 THEN malloc(h, new_size_bytes)
                        ELSE realloc(h, old_ptr, new_size_bytes)}

\* ------------------------------------------------------------- try_push
\* Growth of try_push done, or not needed: debug_assert, then push.
PushTail(e, val, grew) ==
    IF e.ret # "Ok" THEN e
    ELSE IF grew /\ ~(e.vec.cap > e.vec.len)
    THEN [e EXCEPT !.ret = "panic", !.cause = "L66"]
    ELSE push(e, val)

\* Mutant: the new capacity is max(4, old_cap * 2).
try_push_max4(v, h, val) ==
    IF v.cap = v.len
    THEN LET old_cap == v.cap
             dbl == checked_mul(old_cap, 2)
             new_cap == IF dbl = None THEN None
                        ELSE IF dbl < 4 THEN 4 ELSE dbl
         IN  IF new_cap = None
             THEN {Outcome(v, h, "Err", "L63", 0, 0, FALSE)}
             ELSE {PushTail(e, val, TRUE) : e \in try_extend_vec(v, h, new_cap)}
    ELSE {PushTail(Outcome(v, h, "Ok", "", 0, 0, FALSE), val, FALSE)}

\* try_push(val)
try_push(v, h, val) ==
    IF v.cap = v.len
    THEN LET old_cap == v.cap
             new_cap == IF old_cap = 0 THEN 4 ELSE checked_mul(old_cap, 2)
         IN  IF new_cap = None
             THEN {Outcome(v, h, "Err", "L63", 0, 0, FALSE)}
             ELSE {PushTail(e, val, TRUE) : e \in try_extend_vec(v, h, new_cap)}
    ELSE {PushTail(Outcome(v, h, "Ok", "", 0, 0, FALSE), val, FALSE)}

\* ---------------------------------------------------------- try_reserve
\* debug_assert!(self.capacity() == new_cap) after a successful growth.
ReserveTail(e, new_cap) ==
    IF e.ret = "Ok" /\ e.vec.cap # new_cap
    THEN [e EXCEPT !.ret = "panic", !.cause = "L79"]
    ELSE e

\* Mutant: the spare capacity is not deducted from the increase.
try_reserve_no_available(v, h, additional) ==
    LET available == checked_sub(v.cap, v.len)
    IN  IF available = None THEN {Outcome(v, h, "panic", "L74", 0, 0, FALSE)}
        ELSE IF additional > available
        THEN LET new_cap == checked_add(v.cap, additional)
             IN  IF new_cap = None
                 THEN {Outcome(v, h, "Err", "L77", 0, 0, FALSE)}
                 ELSE {ReserveTail(e, new_cap) : e \in try_extend_vec(v, h, new_cap)}
        ELSE {Outcome(v, h, "Ok", "", 0, 0, FALSE)}

\* Mutant: the new capacity is computed with a wrapping addition.
try_reserve_wrapping_add(v, h, additional) ==
    LET available == checked_sub(v.cap, v.len)
    IN  IF available = None THEN {Outcome(v, h, "panic", "L74", 0, 0, FALSE)}
        ELSE IF additional > available
        THEN LET increase == checked_sub(additional, available)
                 new_cap == (v.cap + increase) % (UsizeMax + 1)
             IN  {e : e \in try_extend_vec(v, h, new_cap)}
        ELSE {Outcome(v, h, "Ok", "", 0, 0, FALSE)}

\* try_reserve(additional)
try_reserve(v, h, additional) ==
    LET available == checked_sub(v.cap, v.len)
    IN  IF available = None THEN {Outcome(v, h, "panic", "L74", 0, 0, FALSE)}
        ELSE IF additional > available
        THEN LET increase == checked_sub(additional, available)
                 new_cap == checked_add(v.cap, increase)
             IN  IF increase = None
                 THEN {Outcome(v, h, "panic", "L76", 0, 0, FALSE)}
                 ELSE IF new_cap = None
                 THEN {Outcome(v, h, "Err", "L77", 0, 0, FALSE)}
                 ELSE {ReserveTail(e, new_cap) : e \in try_extend_vec(v, h, new_cap)}
        ELSE {Outcome(v, h, "Ok", "", 0, 0, FALSE)}

\* ------------------------------------------------ try_extend_from_slice
\* try_extend_from_slice(other)
try_extend_from_slice(v, h, other) ==
    {IF e.ret = "Ok" THEN extend_from_slice(e, other) ELSE e
        : e \in try_reserve(v, h, Len(other))}

\* ------------------------------------------------------ try_read_to_end
\* The result of try_read_to_end: the outcome on the buffer, the byte count
\* returned, the bytes taken from the source and the reads made of it.
ReadResult(e, n, consumed, reads) ==
    [out |-> e, n |-> n, consumed |-> consumed, reads |-> reads]

\* Take<T>::read_to_end(buf) with `limit` bytes allowed over `stream`: reads
\* up to the limit or the end of the stream, or stops at an I/O error after
\* any number of bytes; the bytes read are in the buffer either way.  The
\* capacity reserved on line 49 is taken to be enough for it.
read_to_end(e, stream, limit) ==
    LET n == Min(limit, Len(stream))
        app(k) == extend_from_slice(e, SubSeq(stream, 1, k))
    IN  {ReadResult(app(n), n, n, 1)}
        \cup {ReadResult(IF app(k).ret = "Ok"
                         THEN [app(k) EXCEPT !.ret = "Err", !.cause = "L50"]
                         ELSE app(k),
                         0, k, 1) : k \in 0..n}

\* Mutant: the declared limit is returned as the byte count.
try_read_to_end_returns_limit(v, h, stream, limit) ==
    IF limit > UsizeMax
    THEN {ReadResult(Outcome(v, h, "Err", "L48", 0, 0, FALSE), 0, 0, 0)}
    ELSE UNION {IF e.ret # "Ok" THEN {ReadResult(e, 0, 0, 0)}
                ELSE {IF r.out.ret = "Ok" THEN [r EXCEPT !.n = limit] ELSE r
                        : r \in read_to_end(e, stream, limit)}
                  : e \in try_reserve(v, h, limit)}

\* Mutant: the result of the reservation is ignored.
try_read_to_end_ignores_reserve(v, h, stream, limit) ==
    IF limit > UsizeMax
    THEN {ReadResult(Outcome(v, h, "Err", "L48", 0, 0, FALSE), 0, 0, 0)}
    ELSE UNION {IF e.ret \in {"abort", "panic"} THEN {ReadResult(e, 0, 0, 0)}
                ELSE read_to_end([e EXCEPT !.ret = "Ok"], stream, limit)
                  : e \in try_reserve(v, h, limit)}

\* try_read_to_end(src, buf), src a Take over `stream` with limit `limit`
try_read_to_end(v, h, stream, limit) ==
    IF limit > UsizeMax
    THEN {ReadResult(Outcome(v, h, "Err", "L48", 0, 0, FALSE), 0, 0, 0)}
    ELSE UNION {IF e.ret # "Ok" THEN {ReadResult(e, 0, 0, 0)}
                ELSE read_to_end(e, stream, limit)
                  : e \in try_reserve(v, h, limit)}

\* ------------------------------------------------------------ the calls
Call(op, arg, limit, e, n, consumed, reads) ==
    [op |-> op, arg |-> arg, limit |-> limit, ret |-> e.ret, cause |-> e.cause,
     allocs |-> e.allocs, bytes |-> e.bytes,
     n |-> n, consumed |-> consumed, reads |-> reads]

\* The run follows the Vec through any number of calls and ends with one
\* call under observation, whose arguments, result and path `call` records
\* and whose starting Vec `old` records.  Any call of any run can be the one
\* observed.  A call that aborts or panics ends the process and is recorded.
Running == call.op = "new"

Apply(obs, op, arg, limit, e, n, consumed, reads) ==
    /\ vec' = e.vec
    /\ heap' = e.heap
    /\ heapFault' = (heapFault \/ e.fault)
    /\ IF obs \/ e.ret \notin {"Ok", "Err"}
       THEN /\ call' = Call(op, arg, limit, e, n, consumed, reads)
            /\ old' = [vec |-> vec, elems |-> Elems(vec, heap)]
       ELSE UNCHANGED <<call, old>>
    /\ UNCHANGED elemSize

Init ==
    /\ elemSize \in ElemSizes
    /\ vec = VecNew
    /\ heap = [b \in Blocks |-> FreeBlock]
    /\ heapFault = FALSE
    /\ call = Call("new", 0, 0, Outcome(VecNew, heap, "Ok", "", 0, 0, FALSE), 0, 0, 0)
    /\ old = [vec |-> VecNew, elems |-> <<>>]

TryPush ==
    /\ Running
    /\ \E obs \in BOOLEAN, val \in Vals : \E e \in try_push(vec, heap, val) :
          Apply(obs, "try_push", val, 0, e, 0, 0, 0)

TryReserve ==
    /\ Running
    /\ \E obs \in BOOLEAN, additional \in 0..UsizeMax :
          \E e \in try_reserve(vec, heap, additional) :
             Apply(obs, "try_reserve", additional, 0, e, 0, 0, 0)

TryExtendFromSlice ==
    /\ Running
    /\ \E obs \in BOOLEAN, other \in SeqsUpTo(Vals, MaxSlice) :
          \E e \in try_extend_from_slice(vec, heap, other) :
             Apply(obs, "try_extend_from_slice", other, 0, e, 0, 0, 0)

\* buf is a Vec<u8>: the call exists for one-byte elements only.
TryReadToEnd ==
    /\ Running
    /\ elemSize = 1
    /\ \E obs \in BOOLEAN, stream \in SeqsUpTo(Vals, MaxStream), limit \in Limits :
          \E r \in try_read_to_end(vec, heap, stream, limit) :
             Apply(obs, "try_read_to_end", stream, limit, r.out, r.n, r.consumed, r.reads)

Next == TryPush \/ TryReserve \/ TryExtendFromSlice \/ TryReadToEnd

Spec == Init /\ [][Next]_vars

TypeOK ==
    /\ elemSize \in ElemSizes
    /\ vec.len \in 0..UsizeMax /\ vec.cap \in 0..UsizeMax
    /\ heapFault \in BOOLEAN

\* No call reaches the standard library's aborting growth or a failed
\* assertion (lines 66, 74, 76, 79).
NoAbortNoPanic == call.ret \in {"Ok", "Err"}

\* ------------------------------------------------------------ the claims
VecCalls == {"try_push", "try_reserve", "try_extend_from_slice"}
Max(a, b) == IF a > b THEN a ELSE b
ReserveFailures == {"L77", "L105", "L116"}

\* C1: whenever try_push, try_reserve or try_extend_from_slice returns
\* Err(()), by overflow or by a null from malloc / realloc, the Vec's
\* pointer, length, capacity and elements are what they were before the call.
C1_ErrLeavesVecUnchanged ==
    (call.op \in VecCalls /\ call.ret = "Err")
        => /\ vec = old.vec
           /\ Elems(vec, heap) = old.elems

\* try_extend_from_slice of a non-empty slice onto a non-empty Vec failed
\* because realloc returned null.
C1_Witness ==
    /\ call.op = "try_extend_from_slice" /\ call.ret = "Err"
    /\ call.cause = "L116" /\ Len(call.arg) > 0 /\ old.vec.len > 0

\* C2: when try_reserve(additional) returns Ok(()), capacity - length >=
\* additional, length and elements are unchanged, and the capacity is
\* unchanged if the old spare capacity was enough and is exactly
\* old length + additional otherwise.
C2_ReserveExact ==
    (call.op = "try_reserve" /\ call.ret = "Ok")
        => /\ vec.cap - vec.len >= call.arg
           /\ vec.len = old.vec.len
           /\ Elems(vec, heap) = old.elems
           /\ vec.cap = IF old.vec.cap - old.vec.len >= call.arg
                        THEN old.vec.cap
                        ELSE old.vec.len + call.arg

\* try_reserve grew a non-empty Vec that still had spare capacity, and the
\* block moved.
C2_Witness ==
    /\ call.op = "try_reserve" /\ call.ret = "Ok"
    /\ old.vec.len > 0 /\ old.vec.cap > old.vec.len
    /\ vec.cap > old.vec.cap /\ vec.ptr # old.vec.ptr

\* C3: when try_push(value) returns Ok(()), the length is the old length
\* plus one, the capacity is at least the length, the old elements are
\* unchanged at their indices and the element at index old length is value.
C3_PushAppends ==
    (call.op = "try_push" /\ call.ret = "Ok")
        => /\ vec.len = old.vec.len + 1
           /\ vec.cap >= vec.len
           /\ Elems(vec, heap) = Append(old.elems, call.arg)

\* try_push onto a full non-empty Vec, whose block moved on growth.
C3_Witness ==
    /\ call.op = "try_push" /\ call.ret = "Ok"
    /\ old.vec.len > 0 /\ old.vec.len = old.vec.cap
    /\ vec.ptr # old.vec.ptr

\* C4: when try_extend_from_slice(buf, other) returns Ok(()), buf is its old
\* elements followed by the elements of other in order, and its length is
\* the old length plus other.len().
C4_ExtendAppendsSlice ==
    (call.op = "try_extend_from_slice" /\ call.ret = "Ok")
        => /\ Elems(vec, heap) = old.elems \o call.arg
           /\ vec.len = old.vec.len + Len(call.arg)

\* A slice of two different elements was appended to a non-empty Vec that
\* had to grow.
C4_Witness ==
    /\ call.op = "try_extend_from_slice" /\ call.ret = "Ok"
    /\ Len(call.arg) = 2 /\ call.arg[1] # call.arg[2]
    /\ old.vec.len > 0 /\ vec.cap > old.vec.cap

\* C5: when try_read_to_end returns Ok(n) for a source of limit L over a
\* stream with R bytes left, n = min(L, R), n bytes were appended, and the
\* buffer is its old contents followed by the first n bytes of the stream.
C5_ReadReturnsBytesRead ==
    (call.op = "try_read_to_end" /\ call.ret = "Ok")
        => /\ call.n = Min(call.limit, Len(call.arg))
           /\ call.n = vec.len - old.vec.len
           /\ call.consumed = call.n
           /\ Elems(vec, heap) = old.elems \o SubSeq(call.arg, 1, call.n)

\* A read cut short by the limit, into a non-empty buffer.
C5_Witness ==
    /\ call.op = "try_read_to_end" /\ call.ret = "Ok"
    /\ call.limit > 0 /\ call.limit < Len(call.arg)
    /\ old.vec.len > 0

\* C6: try_read_to_end reads the source only after the limit was converted
\* to usize and `limit` more bytes were reserved; if the limit does not fit
\* or the reservation fails, it returns Err(()) with nothing taken from the
\* source and the buffer unchanged.
C6_ReadOnlyAfterReserve ==
    call.op = "try_read_to_end"
        => /\ call.reads > 0
                => /\ call.limit <= UsizeMax
                   /\ call.cause \notin ReserveFailures
                   /\ vec.cap - old.vec.len >= call.limit
           /\ (call.limit > UsizeMax \/ call.cause \in ReserveFailures)
                => /\ call.ret = "Err"
                   /\ call.reads = 0 /\ call.consumed = 0
                   /\ vec = old.vec
                   /\ Elems(vec, heap) = old.elems

\* The reservation for a non-empty source failed in the allocator, the
\* buffer holding bytes already.
C6_Witness ==
    /\ call.op = "try_read_to_end" /\ call.cause = "L116"
    /\ Len(call.arg) > 0 /\ old.vec.len > 0

\* The limit did not fit in usize.
C6_WitnessLimit ==
    /\ call.op = "try_read_to_end" /\ call.limit > UsizeMax
    /\ Len(call.arg) > 0

\* C7 as stated: on every Vec with capacity >= 1 and any length,
\* try_reserve(usize::MAX) fails in the capacity addition (line 77) without
\* any call to malloc or realloc.
C7_AsStated ==
    (call.op = "try_reserve" /\ call.arg = UsizeMax /\ old.vec.cap >= 1)
        => /\ call.ret = "Err"
           /\ call.cause = "L77"
           /\ call.allocs = 0

\* C7 amended: on every Vec with length >= 1, try_reserve(usize::MAX) fails
\* in the capacity addition (line 77) without any call to malloc or realloc.
C7_OverflowWhenNonEmpty ==
    (call.op = "try_reserve" /\ call.arg = UsizeMax /\ old.vec.len >= 1)
        => /\ call.ret = "Err"
           /\ call.cause = "L77"
           /\ call.allocs = 0
           /\ vec = old.vec

\* try_reserve(usize::MAX) on a non-empty Vec with spare capacity.
C7_Witness ==
    /\ call.op = "try_reserve" /\ call.arg = UsizeMax
    /\ old.vec.len >= 1 /\ old.vec.cap > old.vec.len

\* C8: try_reserve(usize::MAX) on an empty Vec (length 0, capacity 0)
\* returns Err(()), never Ok and never a panic: either the byte size
\* overflows (line 105) and no allocation is tried, or malloc is asked for
\* usize::MAX * size bytes and returns null; the Vec stays empty.
C8_ReserveMaxOnEmptyFails ==
    (call.op = "try_reserve" /\ call.arg = UsizeMax
        /\ old.vec.len = 0 /\ old.vec.cap = 0)
        => /\ call.ret = "Err"
           /\ \/ /\ call.cause = "L105" /\ call.allocs = 0
                 /\ UsizeMax * elemSize > UsizeMax
              \/ /\ call.cause = "L116" /\ call.allocs = 1
                 /\ call.bytes = UsizeMax * elemSize
           /\ vec = VecNew
           /\ LiveBlocks(heap) = {}

\* The allocator was asked for usize::MAX bytes and returned null.
C8_Witness ==
    /\ call.op = "try_reserve" /\ call.arg = UsizeMax
    /\ old.vec.cap = 0 /\ call.cause = "L116"

\* The byte size overflowed.
C8_WitnessOverflow ==
    /\ call.op = "try_reserve" /\ call.arg = UsizeMax
    /\ old.vec.cap = 0 /\ call.cause = "L105"

\* C9 as stated: a successful try_push on a full Vec leaves the capacity at
\* max(4, old capacity * 2), and the push fails without an allocator call
\* if old capacity * 2 overflows.
C9_AsStated ==
    (call.op = "try_push" /\ old.vec.len = old.vec.cap)
        => /\ call.ret = "Ok" => vec.cap = Max(4, old.vec.cap * 2)
           /\ old.vec.cap * 2 > UsizeMax
                => call.ret = "Err" /\ call.allocs = 0

\* C9 amended: a successful try_push on a full Vec leaves the capacity at 4
\* if the old capacity was 0 and at old capacity * 2 otherwise, and the push
\* fails without an allocator call if old capacity * 2 overflows.
C9_PushGrowth ==
    (call.op = "try_push" /\ old.vec.len = old.vec.cap)
        => /\ call.ret = "Ok"
                => vec.cap = IF old.vec.cap = 0 THEN 4 ELSE old.vec.cap * 2
           /\ old.vec.cap * 2 > UsizeMax
                => call.ret = "Err" /\ call.allocs = 0

\* A successful try_push on a full Vec of capacity 1.
C9_Witness ==
    /\ call.op = "try_push" /\ call.ret = "Ok"
    /\ old.vec.len = 1 /\ old.vec.cap = 1

\* A try_push on a full Vec whose doubled capacity overflows.
C9_WitnessOverflow ==
    /\ call.op = "try_push"
    /\ old.vec.len = old.vec.cap /\ old.vec.cap * 2 > UsizeMax

\* C10: in every state reached from the empty Vec, whatever the allocator
\* answered: length <= capacity; the pointer is non-null when capacity > 0;
\* the Vec's block is the only live block and has capacity * size bytes
\* (no live block when capacity is 0); no pointer that is not a live block
\* was ever handed to the allocator.
C10_SingleOwner ==
    /\ vec.len <= vec.cap
    /\ vec.cap > 0 => vec.ptr # NULL
    /\ LiveBlocks(heap) = IF vec.cap = 0 THEN {} ELSE {vec.ptr}
    /\ vec.cap > 0 => heap[vec.ptr].bytes = vec.cap * elemSize
    /\ ~heapFault

\* A growth of a Vec that owned a block failed in realloc.
C10_Witness ==
    /\ call.op \in VecCalls /\ call.cause = "L116"
    /\ old.vec.cap > 0 /\ old.vec.len > 0

\* A growth moved the block of a Vec.
C10_WitnessMoved ==
    /\ call.op \in VecCalls /\ call.ret = "Ok"
    /\ old.vec.cap > 0 /\ vec.ptr # old.vec.ptr

====
